---- MODULE Spec2Model ----
(***************************************************************************)
(* simplecache: a process-wide TTL cache (class Cache) with the            *)
(* classmethods add, get, invalidate, clear and the decorator cache, whose *)
(* wrapper memoises a zero-argument coroutine under a fixed key.           *)
(*                                                                         *)
(* Four specifications share the state:                                    *)
(*   Spec        asyncio tasks on one thread, one key: a step runs a       *)
(*               method from one suspension point to the next, and the     *)
(*               only suspension point is the await of the producer.       *)
(*   SpecKeys    add, get, invalidate and clear on two keys.               *)
(*   SpecRace    several default wrappers in flight on one key.            *)
(*   SpecThreads the methods called from several threads: a step is one    *)
(*               read or write of one of the two dictionaries.             *)
(***************************************************************************)

EXTENDS Integers, FiniteSets, Sequences, TLC

VARIABLES
    _cache,   \* Cache._cache: key -> value
    _ttl,     \* Cache._ttl: key -> expiry instant
    now,      \* the clock read by time.time()
    pc,       \* per task or thread: where it stands
    loc,      \* per task or thread: the locals of the call it is in
    ev,       \* the last step: operation, key, value returned, log line
    hist,     \* history: per key, the last write to its entry
    plain,    \* history: per key, whether an add or a wrapped call
              \* without invalidate was ever made on it
    phase     \* history: per key, progress through the sequence
              \* fetch, invalidating update, fetch

vars == <<_cache, _ttl, now, pc, loc, ev, hist, plain, phase>>

----------------------------------------------------------------------------
\* Bounds of the model.
MaxTime == 3
MaxTTL == 2
MaxTasks == 1
MaxRacers == 2
MaxThreads == 2

\* The offset by which invalidation moves an expiry into the past.
InvalidateOffset == 60

None == "None"
Keys == {"a", "b"}
\* The key the concurrent tasks and threads contend for.
Shared == {"a"}
Values == {"x", "y", None}
TTLs == {-1} \cup (0 .. MaxTTL)
WrapTTLs == {MaxTTL}
\* The tasks of Spec, the tasks of SpecRace and the threads of SpecThreads.
Tasks == 1 .. MaxTasks
Racers == 1 .. MaxRacers
Threads == 1 .. MaxThreads
Procs == Tasks \cup Racers \cup Threads
Errors == {"Exception", "CancelledError"}

EmptyDict == [k \in {} |-> None]

\* d[k] = v on a dictionary.
SetItem(d, k, v) == [x \in (DOMAIN d) \cup {k} |-> IF x = k THEN v ELSE d[x]]

----------------------------------------------------------------------------
\* The pieces of the methods.

\* An expiry that gives an entry with ttl <= 0 one unit of life.
ExpiryClamped(t, ttl) == t + (IF ttl <= 0 THEN 1 ELSE ttl)

\* t + ttl, the expiry of a new entry
Expiry(t, ttl) == t + ttl

\* An invalidation that moves the expiry the wrong way.
InvalidExpiryAhead(t) == t + InvalidateOffset

\* t - 60, the expiry of an invalidated entry
InvalidExpiry(t) == t - InvalidateOffset

\* A get for which an entry is still valid at its expiry instant.
GetHitInclusive(key, t) == key \in DOMAIN _cache /\ _ttl[key] >= t

\* get: key in cls._cache, and cls._ttl[key] > t
GetHit(key, t) == key \in DOMAIN _cache /\ _ttl[key] > t

\* A wrapper that takes the invalidate branch for the keys without entry.
InvalidateBranchAbsent(key, invalidate_) ==
    invalidate_ /\ key \notin DOMAIN _cache

\* wrapper: invalidate and key in cls._cache
InvalidateBranch(key, invalidate_) == invalidate_ /\ key \in DOMAIN _cache

\* A wrapper that does not look at ignore.
WrapperHitAlways(key, t, ignore) ==
    /\ key \in DOMAIN _cache
    /\ _ttl[key] > t

\* A wrapper that reads the cache when told to ignore it, and only then.
WrapperHitIgnoring(key, t, ignore) ==
    /\ ignore
    /\ key \in DOMAIN _cache
    /\ _ttl[key] > t

\* wrapper: not ignore and key in cls._cache, and cls._ttl[key] > t
WrapperHit(key, t, ignore) ==
    /\ ~ignore
    /\ key \in DOMAIN _cache
    /\ _ttl[key] > t

\* A lookup of cls._ttl[key] that raises KeyError.
TtlMissing(key) == key \in DOMAIN _cache /\ key \notin DOMAIN _ttl

----------------------------------------------------------------------------
\* Records of the model.

\* The locals of a call that the rest of the call still reads, and two
\* notes on it: plain, that it is a wrapper with default settings, and
\* raced, that another call has populated its key since it missed.
Idle == [op |-> "-", key |-> "-", value |-> None, ttl |-> 0, t |-> 0,
         plain |-> FALSE, raced |-> FALSE]

Call(op, key, value, ttl, t, plain_) ==
    [op |-> op, key |-> key, value |-> value, ttl |-> ttl, t |-> t,
     plain |-> plain_, raced |-> FALSE]

\* A step: the operation, its key, the value it returned or raised, the
\* line it logged, the task, the source line it stopped at and, for an
\* add over a valid entry or a write that raced another, the value it
\* replaced.
Event(op, key, val, log, task, line) ==
    [op |-> op, key |-> key, val |-> val, log |-> log, task |-> task,
     line |-> line, over |-> <<>>]

NoWrite == [by |-> "none", v |-> None, t |-> 0, d |-> 0]

Written(by, v, t, d) == [by |-> by, v |-> v, t |-> t, d |-> d]

Init ==
    /\ _cache = EmptyDict
    /\ _ttl = EmptyDict
    /\ now = 0
    /\ pc = [p \in Procs |-> "idle"]
    /\ loc = [p \in Procs |-> Idle]
    /\ ev = Event("init", "-", None, "-", 0, 0)
    /\ hist = [k \in Keys |-> NoWrite]
    /\ plain = [k \in Keys |-> FALSE]
    /\ phase = [k \in Keys |-> <<0, 0>>]

\* The clock advances.
Tick ==
    /\ now < MaxTime
    /\ now' = now + 1
    /\ ev' = Event("tick", "-", None, "-", 0, 0)
    /\ UNCHANGED <<_cache, _ttl, pc, loc, hist, plain, phase>>

----------------------------------------------------------------------------
\* The methods as asyncio tasks run them.

\* An add that keeps the expiry of the entry it replaces when that one is
\* later.
addKeepsLonger(key, value, ttl) ==
    /\ _cache' = SetItem(_cache, key, value)
    /\ _ttl' = SetItem(_ttl, key,
                       IF key \in DOMAIN _ttl /\ _ttl[key] > Expiry(now, ttl)
                       THEN _ttl[key] ELSE Expiry(now, ttl))
    /\ ev' = [Event("add", key, None, "set", 0, 108)
                 EXCEPT !.over = IF GetHit(key, now) THEN <<_cache[key]>> ELSE <<>>]
    /\ hist' = [hist EXCEPT ![key] = Written("add", value, now, ttl)]
    /\ plain' = [plain EXCEPT ![key] = TRUE]
    /\ phase' = [phase EXCEPT ![key] = <<0, 0>>]
    /\ UNCHANGED <<now, pc, loc>>

\* Cache.add(key, value, ttl); the step keeps the value of a valid entry
\* that it replaced.
add(key, value, ttl) ==
    /\ _cache' = SetItem(_cache, key, value)
    /\ _ttl' = SetItem(_ttl, key, Expiry(now, ttl))
    /\ ev' = [Event("add", key, None, "set", 0, 108)
                 EXCEPT !.over = IF GetHit(key, now) THEN <<_cache[key]>> ELSE <<>>]
    /\ hist' = [hist EXCEPT ![key] = Written("add", value, now, ttl)]
    /\ plain' = [plain EXCEPT ![key] = TRUE]
    /\ phase' = [phase EXCEPT ![key] = <<0, 0>>]
    /\ UNCHANGED <<now, pc, loc>>

\* A get that deletes the entry it finds expired.
getEvicting(key) ==
    /\ IF TtlMissing(key)
       THEN /\ ev' = Event("get", key, "KeyError", "-", 0, 123)
            /\ UNCHANGED <<_cache, _ttl>>
       ELSE IF GetHit(key, now)
       THEN /\ ev' = Event("get", key, _cache[key], "hit", 0, 125)
            /\ UNCHANGED <<_cache, _ttl>>
       ELSE /\ ev' = Event("get", key, None, "miss", 0, 127)
            /\ _cache' = [k \in DOMAIN _cache \ {key} |-> _cache[k]]
            /\ _ttl' = [k \in DOMAIN _ttl \ {key} |-> _ttl[k]]
    /\ UNCHANGED <<now, pc, loc, hist, plain, phase>>

\* Cache.get(key)
get(key) ==
    /\ IF TtlMissing(key)
       THEN ev' = Event("get", key, "KeyError", "-", 0, 123)
       ELSE IF GetHit(key, now)
       THEN ev' = Event("get", key, _cache[key], "hit", 0, 125)
       ELSE ev' = Event("get", key, None, "miss", 0, 127)
    /\ UNCHANGED <<_cache, _ttl, now, pc, loc, hist, plain, phase>>

\* Cache.invalidate(key); the history keeps whether the entry was valid.
invalidate(key) ==
    /\ IF key \in DOMAIN _cache
       THEN /\ _ttl' = SetItem(_ttl, key, InvalidExpiry(now))
            /\ ev' = Event("invalidate", key, None, "invalidated", 0, 139)
            /\ hist' = [hist EXCEPT ![key] =
                           Written("invalidate", None, 0,
                                   IF key \in DOMAIN _ttl /\ _ttl[key] > now
                                   THEN 1 ELSE 0)]
            /\ phase' = [phase EXCEPT ![key] = <<0, 0>>]
       ELSE /\ ev' = Event("invalidate", key, None, "-", 0, 137)
            /\ UNCHANGED <<_ttl, hist, phase>>
    /\ UNCHANGED <<_cache, now, pc, loc, plain>>

\* A clear that forgets the expiry dictionary.
clearCacheOnly ==
    /\ _cache' = EmptyDict
    /\ ev' = Event("clear", "-", None, "cleared", 0, 148)
    /\ hist' = [k \in Keys |->
                  IF hist[k].by = "none" THEN NoWrite
                  ELSE Written("cleared", None, 0, 0)]
    /\ phase' = [k \in Keys |-> <<0, 0>>]
    /\ UNCHANGED <<_ttl, now, pc, loc, plain>>

\* Cache.clear(); the history keeps which keys had an entry.
clear ==
    /\ _cache' = EmptyDict
    /\ _ttl' = EmptyDict
    /\ ev' = Event("clear", "-", None, "cleared", 0, 148)
    /\ hist' = [k \in Keys |->
                  IF hist[k].by = "none" THEN NoWrite
                  ELSE Written("cleared", None, 0, 0)]
    /\ phase' = [k \in Keys |-> <<0, 0>>]
    /\ UNCHANGED <<now, pc, loc, plain>>

\* A populate step that forgets the expiry.
PopulateValueOnly(key, result, t, ttl) ==
    /\ _cache' = SetItem(_cache, key, result)
    /\ UNCHANGED _ttl

\* A populate step that keeps an entry that is still valid (the first
\* write wins).
PopulateUnlessValid(key, result, t, ttl) ==
    IF GetHit(key, now)
    THEN UNCHANGED <<_cache, _ttl>>
    ELSE /\ _cache' = SetItem(_cache, key, result)
         /\ _ttl' = SetItem(_ttl, key, Expiry(t, ttl))

\* wrapper, lines 88 and 89: the result is stored with the expiry
\* computed from t, the time read when the call started.
Populate(key, result, t, ttl) ==
    /\ _cache' = SetItem(_cache, key, result)
    /\ _ttl' = SetItem(_ttl, key, Expiry(t, ttl))

\* History of the sequence fetch (1), invalidating update in flight (2)
\* and returned (3), fetch in flight (4) and returned (5), with 6 for a
\* fetch after the update that was served from the cache: the phase after
\* task p calls a wrapper, which returned at once or is at its await.
PhaseAtCall(ph, p, ignore, invalidate_, returned) ==
    IF invalidate_
    THEN IF ph[1] \in {1, 5} THEN (IF returned THEN <<3, 0>> ELSE <<2, p>>)
         ELSE <<0, 0>>
    ELSE IF ignore THEN ph
    ELSE IF ph[1] = 3 THEN (IF returned THEN <<6, 0>> ELSE <<4, p>>)
    ELSE IF returned /\ ph[1] \notin {2, 4} THEN <<1, 0>>
    ELSE ph

\* The phase after task p's wrapper resumed and returned, having written
\* the entry or not.
PhaseAtReturn(ph, p, plain_, wrote) ==
    IF ph = <<2, p>> THEN <<3, 0>>
    ELSE IF ph = <<4, p>> THEN <<5, p>>
    ELSE IF ~wrote THEN ph
    ELSE IF plain_ THEN <<1, 0>>
    ELSE <<0, 0>>

\* A wrapper whose hit renews the expiry of the entry it serves.
wrapperSliding(p, key, ttl, ignore, invalidate_) ==
    /\ pc[p] = "idle"
    /\ plain' = IF invalidate_ THEN plain ELSE [plain EXCEPT ![key] = TRUE]
    /\ IF InvalidateBranch(key, invalidate_)
       THEN /\ _ttl' = SetItem(_ttl, key, InvalidExpiry(now))
            /\ pc' = [pc EXCEPT ![p] = "line79"]
            /\ loc' = [loc EXCEPT ![p] = Call("wrapper", key, None, 0, 0, FALSE)]
            /\ ev' = Event("call", key, None, "invalidated", p, 79)
            /\ hist' = [hist EXCEPT ![key] = Written("winvalidate", None, 0, 0)]
            /\ phase' = [phase EXCEPT ![key] =
                            PhaseAtCall(phase[key], p, ignore, invalidate_, FALSE)]
            /\ UNCHANGED _cache
       ELSE IF ~ignore /\ TtlMissing(key)
       THEN /\ ev' = Event("raise", key, "KeyError", "-", p, 82)
            /\ UNCHANGED <<_cache, _ttl, pc, loc, hist, phase>>
       ELSE IF WrapperHit(key, now, ignore)
       THEN /\ ev' = Event("return", key, _cache[key], "hit", p, 84)
            /\ _ttl' = SetItem(_ttl, key, Expiry(now, ttl))
            /\ phase' = [phase EXCEPT ![key] =
                            PhaseAtCall(phase[key], p, ignore, invalidate_, TRUE)]
            /\ UNCHANGED <<_cache, pc, loc, hist>>
       ELSE /\ pc' = [pc EXCEPT ![p] = "line87"]
            /\ loc' = [loc EXCEPT ![p] =
                          Call("wrapper", key, None, ttl, now,
                               ~ignore /\ ~invalidate_)]
            /\ ev' = Event("call", key, None, "miss", p, 87)
            /\ phase' = [phase EXCEPT ![key] =
                            PhaseAtCall(phase[key], p, ignore, invalidate_, FALSE)]
            /\ UNCHANGED <<_cache, _ttl, hist>>
    /\ UNCHANGED now

\* The wrapper of Cache.cache(key, ttl, ignore, invalidate), from its call
\* to the await of the producer (line 79 or line 87) or to its return of
\* the cached value (line 84).
wrapper(p, key, ttl, ignore, invalidate_) ==
    /\ pc[p] = "idle"
    /\ plain' = IF invalidate_ THEN plain ELSE [plain EXCEPT ![key] = TRUE]
    /\ IF InvalidateBranch(key, invalidate_)
       THEN /\ _ttl' = SetItem(_ttl, key, InvalidExpiry(now))
            /\ pc' = [pc EXCEPT ![p] = "line79"]
            /\ loc' = [loc EXCEPT ![p] = Call("wrapper", key, None, 0, 0, FALSE)]
            /\ ev' = Event("call", key, None, "invalidated", p, 79)
            /\ hist' = [hist EXCEPT ![key] = Written("winvalidate", None, 0, 0)]
            /\ phase' = [phase EXCEPT ![key] =
                            PhaseAtCall(phase[key], p, ignore, invalidate_, FALSE)]
            /\ UNCHANGED _cache
       ELSE IF ~ignore /\ TtlMissing(key)
       THEN /\ ev' = Event("raise", key, "KeyError", "-", p, 82)
            /\ UNCHANGED <<_cache, _ttl, pc, loc, hist, phase>>
       ELSE IF WrapperHit(key, now, ignore)
       THEN /\ ev' = Event("return", key, _cache[key], "hit", p, 84)
            /\ phase' = [phase EXCEPT ![key] =
                            PhaseAtCall(phase[key], p, ignore, invalidate_, TRUE)]
            /\ UNCHANGED <<_cache, _ttl, pc, loc, hist>>
       ELSE /\ pc' = [pc EXCEPT ![p] = "line87"]
            /\ loc' = [loc EXCEPT ![p] =
                          Call("wrapper", key, None, ttl, now,
                               ~ignore /\ ~invalidate_)]
            /\ ev' = Event("call", key, None, "miss", p, 87)
            /\ phase' = [phase EXCEPT ![key] =
                            PhaseAtCall(phase[key], p, ignore, invalidate_, FALSE)]
            /\ UNCHANGED <<_cache, _ttl, hist>>
    /\ UNCHANGED now

\* A wrapper that stores the result on the invalidate branch as well.
wrapperResumeStores(p, result) ==
    /\ pc[p] \in {"line79", "line87"}
    /\ pc' = [pc EXCEPT ![p] = "idle"]
    /\ LET c == loc[p] IN
       /\ Populate(c.key, result, now, MaxTTL)
       /\ ev' = Event("return", c.key, result,
                      IF pc[p] = "line79" THEN "-" ELSE "set", p,
                      IF pc[p] = "line79" THEN 79 ELSE 91)
       /\ loc' = [loc EXCEPT ![p] = Idle]
       /\ hist' = [hist EXCEPT ![c.key] =
                      IF pc[p] = "line79" THEN @
                      ELSE Written(IF c.plain THEN "wrap" ELSE "wrapx",
                                   result, c.t, c.ttl)]
       /\ phase' = [phase EXCEPT ![c.key] =
                       PhaseAtReturn(phase[c.key], p, c.plain, pc[p] = "line87")]
    /\ UNCHANGED <<now, plain>>

\* The producer returns result and the wrapper runs to its return.
wrapperResume(p, result) ==
    /\ pc[p] \in {"line79", "line87"}
    /\ pc' = [pc EXCEPT ![p] = "idle"]
    /\ LET c == loc[p] IN
       IF pc[p] = "line79"
       THEN /\ ev' = Event("return", c.key, result, "-", p, 79)
            /\ loc' = [loc EXCEPT ![p] = Idle]
            /\ phase' = [phase EXCEPT ![c.key] =
                            PhaseAtReturn(phase[c.key], p, c.plain, FALSE)]
            /\ UNCHANGED <<_cache, _ttl, hist>>
       ELSE /\ Populate(c.key, result, c.t, c.ttl)
            /\ ev' = [Event("return", c.key, result, "set", p, 91)
                         EXCEPT !.over = IF c.raced /\ c.key \in DOMAIN _cache
                                          THEN <<_cache[c.key]>> ELSE <<>>]
            /\ loc' = [q \in Procs |->
                          IF q = p THEN Idle
                          ELSE IF pc[q] = "line87" /\ loc[q].key = c.key
                          THEN [loc[q] EXCEPT !.raced = TRUE]
                          ELSE loc[q]]
            /\ hist' = [hist EXCEPT ![c.key] =
                           Written(IF c.plain THEN "wrap" ELSE "wrapx",
                                   result, c.t, c.ttl)]
            /\ phase' = [phase EXCEPT ![c.key] =
                            PhaseAtReturn(phase[c.key], p, c.plain, TRUE)]
    /\ UNCHANGED <<now, plain>>

\* A wrapper that caches None when the producer fails on the miss path.
wrapperRaiseStores(p, exc) ==
    /\ pc[p] \in {"line79", "line87"}
    /\ pc' = [pc EXCEPT ![p] = "idle"]
    /\ loc' = [loc EXCEPT ![p] = Idle]
    /\ ev' = Event("raise", loc[p].key, exc, "-", p,
                   IF pc[p] = "line79" THEN 79 ELSE 87)
    /\ IF pc[p] = "line87"
       THEN Populate(loc[p].key, None, loc[p].t, loc[p].ttl)
       ELSE UNCHANGED <<_cache, _ttl>>
    /\ phase' = [phase EXCEPT ![loc[p].key] = <<0, 0>>]
    /\ hist' = [hist EXCEPT ![loc[p].key] = NoWrite]
    /\ UNCHANGED <<now, plain>>

\* The producer raises exc (or is cancelled): nothing in the wrapper
\* catches it, so it leaves the wrapper at the await.
wrapperRaise(p, exc) ==
    /\ pc[p] \in {"line79", "line87"}
    /\ pc' = [pc EXCEPT ![p] = "idle"]
    /\ loc' = [loc EXCEPT ![p] = Idle]
    /\ ev' = Event("raise", loc[p].key, exc, "-", p,
                   IF pc[p] = "line79" THEN 79 ELSE 87)
    /\ phase' = [phase EXCEPT ![loc[p].key] =
                    IF phase[loc[p].key] \in {<<2, p>>, <<4, p>>}
                    THEN <<0, 0>> ELSE phase[loc[p].key]]
    /\ UNCHANGED <<_cache, _ttl, now, hist, plain>>

----------------------------------------------------------------------------
\* Spec: every method, called by the tasks on the shared key.
Next ==
    \/ Tick
    \/ \E key \in Shared, value \in Values, ttl \in TTLs : add(key, value, ttl)
    \/ \E key \in Shared : get(key)
    \/ \E key \in Shared : invalidate(key)
    \/ clear
    \/ \E p \in Tasks, key \in Shared, ttl \in WrapTTLs, ignore \in BOOLEAN,
          invalidate_ \in BOOLEAN : wrapper(p, key, ttl, ignore, invalidate_)
    \/ \E p \in Tasks, result \in Values : wrapperResume(p, result)
    \/ \E p \in Tasks, exc \in Errors : wrapperRaise(p, exc)

Spec == Init /\ [][Next]_vars

\* SpecKeys: the store's own methods on every key.
NextKeys ==
    \/ Tick
    \/ \E key \in Keys, value \in Values, ttl \in TTLs : add(key, value, ttl)
    \/ \E key \in Keys : get(key)
    \/ \E key \in Keys : invalidate(key)
    \/ clear

SpecKeys == Init /\ [][NextKeys]_vars

\* SpecRace: wrappers with default settings called concurrently on the
\* shared key, while the clock advances and the entry is read, invalidated
\* and cleared.
NextRace ==
    \/ Tick
    \/ \E key \in Shared : get(key)
    \/ \E key \in Shared : invalidate(key)
    \/ clear
    \/ \E p \in Racers, key \in Shared, ttl \in WrapTTLs :
          wrapper(p, key, ttl, FALSE, FALSE)
    \/ \E p \in Racers, result \in Values : wrapperResume(p, result)
    \/ \E p \in Racers, exc \in Errors : wrapperRaise(p, exc)

SpecRace == Init /\ [][NextRace]_vars

----------------------------------------------------------------------------
\* The methods as threads run them: a step is one read or write of
\* cls._cache or cls._ttl, together with the statements on locals before
\* it. pc[p] names the line thread p executes next. The history variables
\* are not kept here.

\* The maps a step leaves alone.
Ghosts == <<hist, plain, phase>>

\* Thread p goes to line l with its locals c.
Goto(p, l, c) ==
    /\ pc' = [pc EXCEPT ![p] = l]
    /\ loc' = [loc EXCEPT ![p] = c]
    /\ UNCHANGED ev

\* Thread p leaves its method with the step e.
Leave(p, e) ==
    /\ pc' = [pc EXCEPT ![p] = "idle"]
    /\ loc' = [loc EXCEPT ![p] = Idle]
    /\ ev' = e

\* add, lines 105 and 106: t = time.time(); cls._cache[key] = value
threadAdd(p, key, value, ttl) ==
    /\ pc[p] = "idle"
    /\ _cache' = SetItem(_cache, key, value)
    /\ Goto(p, "line107", Call("add", key, value, ttl, now, FALSE))
    /\ UNCHANGED <<_ttl, now, Ghosts>>

\* add, line 107: cls._ttl[key] = t + ttl
line107(p) ==
    /\ pc[p] = "line107"
    /\ _ttl' = SetItem(_ttl, loc[p].key, Expiry(loc[p].t, loc[p].ttl))
    /\ Leave(p, Event("add", loc[p].key, None, "set", p, 108))
    /\ UNCHANGED <<_cache, now, Ghosts>>

\* get, lines 121 and 122: t = time.time(); if key in cls._cache
threadGet(p, key) ==
    /\ pc[p] = "idle"
    /\ IF key \in DOMAIN _cache
       THEN Goto(p, "line123", Call("get", key, None, 0, now, FALSE))
       ELSE /\ ev' = Event("get", key, None, "miss", p, 127)
            /\ UNCHANGED <<pc, loc>>
    /\ UNCHANGED <<_cache, _ttl, now, Ghosts>>

\* get, line 123: if cls._ttl[key] > t
line123(p) ==
    /\ pc[p] = "line123"
    /\ IF loc[p].key \notin DOMAIN _ttl
       THEN Leave(p, Event("raise", loc[p].key, "KeyError", "-", p, 123))
       ELSE IF _ttl[loc[p].key] > loc[p].t
       THEN Goto(p, "line125", loc[p])
       ELSE Leave(p, Event("get", loc[p].key, None, "miss", p, 127))
    /\ UNCHANGED <<_cache, _ttl, now, Ghosts>>

\* get, line 125: return cls._cache[key]
line125(p) ==
    /\ pc[p] = "line125"
    /\ IF loc[p].key \notin DOMAIN _cache
       THEN Leave(p, Event("raise", loc[p].key, "KeyError", "hit", p, 125))
       ELSE Leave(p, Event("get", loc[p].key, _cache[loc[p].key], "hit", p, 125))
    /\ UNCHANGED <<_cache, _ttl, now, Ghosts>>

\* invalidate, line 137: if key in cls._cache
threadInvalidate(p, key) ==
    /\ pc[p] = "idle"
    /\ IF key \in DOMAIN _cache
       THEN Goto(p, "line138", Call("invalidate", key, None, 0, 0, FALSE))
       ELSE /\ ev' = Event("invalidate", key, None, "-", p, 137)
            /\ UNCHANGED <<pc, loc>>
    /\ UNCHANGED <<_cache, _ttl, now, Ghosts>>

\* invalidate, line 138: cls._ttl[key] = time.time() - 60
line138(p) ==
    /\ pc[p] = "line138"
    /\ _ttl' = SetItem(_ttl, loc[p].key, InvalidExpiry(now))
    /\ Leave(p, Event("invalidate", loc[p].key, None, "invalidated", p, 139))
    /\ UNCHANGED <<_cache, now, Ghosts>>

\* clear, line 146: cls._cache = {}
threadClear(p) ==
    /\ pc[p] = "idle"
    /\ _cache' = EmptyDict
    /\ Goto(p, "line147", Call("clear", "-", None, 0, 0, FALSE))
    /\ UNCHANGED <<_ttl, now, Ghosts>>

\* clear, line 147: cls._ttl = {}
line147(p) ==
    /\ pc[p] = "line147"
    /\ _ttl' = EmptyDict
    /\ Leave(p, Event("clear", "-", None, "cleared", p, 148))
    /\ UNCHANGED <<_cache, now, Ghosts>>

\* wrapper, lines 74 to 81: t = time.time(), then the first test that
\* reads cls._cache: line 76 when invalidate is set, line 81 otherwise.
threadWrapper(p, key, ttl, ignore, invalidate_) ==
    /\ pc[p] = "idle"
    /\ LET c == Call("wrapper", key, None, ttl, now, ~ignore) IN
       IF invalidate_
       THEN IF key \in DOMAIN _cache
            THEN Goto(p, "line77", c)
            ELSE Goto(p, IF ignore THEN "line87" ELSE "line81", c)
       ELSE IF ~ignore /\ key \in DOMAIN _cache
       THEN Goto(p, "line82", c)
       ELSE Goto(p, "line87", c)
    /\ UNCHANGED <<_cache, _ttl, now, Ghosts>>

\* wrapper, line 77: cls._ttl[key] = t - 60, then the await of line 79
line77(p) ==
    /\ pc[p] = "line77"
    /\ _ttl' = SetItem(_ttl, loc[p].key, InvalidExpiry(loc[p].t))
    /\ Goto(p, "line79", loc[p])
    /\ UNCHANGED <<_cache, now, Ghosts>>

\* wrapper, line 81, reached with ignore unset after line 76 found no
\* entry: if key in cls._cache
line81(p) ==
    /\ pc[p] = "line81"
    /\ Goto(p, IF loc[p].key \in DOMAIN _cache THEN "line82" ELSE "line87", loc[p])
    /\ UNCHANGED <<_cache, _ttl, now, Ghosts>>

\* wrapper, line 82: if cls._ttl[key] > t
line82(p) ==
    /\ pc[p] = "line82"
    /\ IF loc[p].key \notin DOMAIN _ttl
       THEN Leave(p, Event("raise", loc[p].key, "KeyError", "-", p, 82))
       ELSE Goto(p, IF _ttl[loc[p].key] > loc[p].t THEN "line84" ELSE "line87",
                 loc[p])
    /\ UNCHANGED <<_cache, _ttl, now, Ghosts>>

\* wrapper, line 84: return cls._cache[key]
line84(p) ==
    /\ pc[p] = "line84"
    /\ IF loc[p].key \notin DOMAIN _cache
       THEN Leave(p, Event("raise", loc[p].key, "KeyError", "hit", p, 84))
       ELSE Leave(p, Event("return", loc[p].key, _cache[loc[p].key], "hit", p, 84))
    /\ UNCHANGED <<_cache, _ttl, now, Ghosts>>

\* wrapper: the producer returns result; after line 79 the wrapper
\* returns it, after line 87 it runs line 88: cls._cache[key] = result
threadResume(p, result) ==
    /\ pc[p] \in {"line79", "line87"}
    /\ IF pc[p] = "line79"
       THEN /\ Leave(p, Event("return", loc[p].key, result, "-", p, 79))
            /\ UNCHANGED _cache
       ELSE /\ _cache' = SetItem(_cache, loc[p].key, result)
            /\ Goto(p, "line89", [loc[p] EXCEPT !.value = result])
    /\ UNCHANGED <<_ttl, now, Ghosts>>

\* wrapper, line 89: cls._ttl[key] = t + ttl, then the return of line 91
line89(p) ==
    /\ pc[p] = "line89"
    /\ _ttl' = SetItem(_ttl, loc[p].key, Expiry(loc[p].t, loc[p].ttl))
    /\ Leave(p, Event("return", loc[p].key, loc[p].value, "set", p, 91))
    /\ UNCHANGED <<_cache, now, Ghosts>>

\* The clock advances while the threads run.
threadTick ==
    /\ now < MaxTime
    /\ now' = now + 1
    /\ UNCHANGED <<_cache, _ttl, pc, loc, ev, Ghosts>>

NextThreads ==
    \/ threadTick
    \/ \E p \in Threads, key \in Shared, value \in Values, ttl \in WrapTTLs :
          threadAdd(p, key, value, ttl)
    \/ \E p \in Threads, key \in Shared : threadGet(p, key)
    \/ \E p \in Threads, key \in Shared : threadInvalidate(p, key)
    \/ \E p \in Threads : threadClear(p)
    \/ \E p \in Threads, key \in Shared, ttl \in WrapTTLs, ignore \in BOOLEAN,
          invalidate_ \in BOOLEAN : threadWrapper(p, key, ttl, ignore, invalidate_)
    \/ \E p \in Threads, result \in Values : threadResume(p, result)
    \/ \E p \in Threads :
          \/ line107(p) \/ line123(p) \/ line125(p) \/ line138(p) \/ line147(p)
          \/ line77(p) \/ line81(p) \/ line82(p) \/ line84(p) \/ line89(p)

SpecThreads == Init /\ [][NextThreads]_vars

----------------------------------------------------------------------------
\* The claims.

\* C1: a wrapper made with invalidate=True never leaves an entry under its
\* key: as long as only such wrappers were called on a key (no add, no
\* wrapper without invalidate), the key has no entry.
C1_InvalidateNeverCaches ==
    \A k \in Keys : ~plain[k] => k \notin DOMAIN _cache

\* C2: after add(k, v, d) with d > 0 at time t, and until the entry is
\* written again, get(k) at a time before t + d returns v (a hit), and
\* get(k) at t + d or later returns None (a miss).
C2_TTLCorrectness ==
    (ev.op = "get" /\ hist[ev.key].by = "add" /\ hist[ev.key].d > 0) =>
        IF now < hist[ev.key].t + hist[ev.key].d
        THEN ev.log = "hit" /\ ev.val = hist[ev.key].v
        ELSE ev.log = "miss" /\ ev.val = None

\* C2 happens: a get at the very instant t + d of an entry added with d > 0.
C2_Witness ==
    /\ ev.op = "get" /\ ev.key = "b"
    /\ hist["b"].by = "add" /\ hist["b"].d > 0
    /\ now = hist["b"].t + hist["b"].d
    /\ ev.log = "miss"
    /\ "a" \in DOMAIN _cache

\* C3: once a wrapper with default settings has populated the key, and
\* while that entry is untouched and its TTL window (counted from the
\* start of the populating call) is open, get returns the populated value,
\* a wrapper with default settings returns it too, and no such wrapper
\* invokes the producer.
C3_WrapCacheHit ==
    \A k \in Keys :
        (ev.key = k /\ hist[k].by = "wrap" /\ now < hist[k].t + hist[k].d) =>
            /\ ev.op = "get" => (ev.log = "hit" /\ ev.val = hist[k].v)
            /\ (ev.op = "return" /\ ev.line = 84) => ev.val = hist[k].v
            /\ ~(ev.op = "call" /\ ev.line = 87 /\ loc[ev.task].plain)

\* C3 happens: a later call of the wrapper is served from the cache.
C3_Witness ==
    /\ ev.op = "return" /\ ev.line = 84
    /\ hist[ev.key].by = "wrap"
    /\ now > hist[ev.key].t
    /\ ev.val = hist[ev.key].v

\* C4: after invalidate(k) on a key with an entry, and until the entry is
\* written again, get(k) returns None; invalidate(k) on a key that has had
\* no entry leaves it in neither dictionary.
C4_InvalidateSemantics ==
    /\ (ev.op = "get" /\ hist[ev.key].by = "invalidate") =>
           (ev.log = "miss" /\ ev.val = None)
    /\ (ev.op = "invalidate" /\ hist[ev.key].by \in {"none", "cleared"}) =>
           (ev.key \notin DOMAIN _cache /\ ev.key \notin DOMAIN _ttl)

\* C4 happens: a get misses an entry that was valid when invalidated.
C4_Witness ==
    /\ ev.op = "get" /\ ev.log = "miss"
    /\ hist[ev.key].by = "invalidate" /\ hist[ev.key].d = 1

\* C5: after clear both dictionaries are empty, and every key that had an
\* entry is in neither dictionary, and get misses it, until it is written
\* again.
C5_ClearSemantics ==
    /\ ev.op = "clear" => (_cache = EmptyDict /\ _ttl = EmptyDict)
    /\ \A k \in Keys :
           hist[k].by = "cleared" =>
               /\ k \notin DOMAIN _cache /\ k \notin DOMAIN _ttl
               /\ (ev.op = "get" /\ ev.key = k) => ev.log = "miss"

\* C5 happens: a get misses a key cleared while a wrapped call was in flight.
C5_Witness ==
    /\ ev.op = "get" /\ ev.log = "miss"
    /\ hist[ev.key].by = "cleared"
    /\ \E p \in Tasks : pc[p] = "line87"

\* C6: after a default wrapper returned, then a wrapper with invalidate=True
\* returned, get misses, and the next default wrapper is not served from
\* the cache: it invokes the producer and, returning, leaves its result as
\* the entry.
C6_InvalidateThenRefetch ==
    \A k \in Keys :
        /\ phase[k][1] # 6
        /\ (phase[k][1] = 3 /\ ev.op = "get" /\ ev.key = k) => ev.log = "miss"
        /\ (phase[k][1] = 5 /\ ev.op = "return" /\ ev.task = phase[k][2]) =>
               /\ ev.line = 91
               /\ k \in DOMAIN _ttl /\ k \in DOMAIN _cache
               /\ _cache[k] = ev.val

\* C6 happens: the third call has invoked the producer and returned.
C6_Witness ==
    \E k \in Keys : phase[k][1] = 5 /\ ev.op = "return" /\ ev.task = phase[k][2]

\* C7: when the producer fails or is cancelled, the wrapper ends with that
\* failure, does not await the producer again, and writes neither
\* dictionary.
C7_ProducerFailure ==
    [][(ev'.op = "raise" /\ ev'.line \in {79, 87}) =>
          /\ ev'.val \in Errors
          /\ pc[ev'.task] \in {"line79", "line87"}
          /\ pc'[ev'.task] = "idle"
          /\ UNCHANGED <<_cache, _ttl>>]_vars

\* C7 happens: the producer failed on the miss path.
C7_Witness ==
    /\ ev.op = "raise" /\ ev.line = 87 /\ ev.val \in Errors
    /\ pc[ev.task] = "idle"

\* C8: called from several threads, get and the wrapper's validity check
\* never fail on a key that is in cls._cache and not in cls._ttl.
C8_SerializedAccess ==
    ~(ev.op = "raise" /\ ev.val = "KeyError" /\ ev.line \in {82, 123})

\* C9: clear replaces both dictionaries in one step: once every thread has
\* left its method, also after a clear that ran beside an add or an
\* invalidate, the two dictionaries have the same keys.
C9_ClearAtomic ==
    (\A p \in Threads : pc[p] = "idle") => DOMAIN _cache = DOMAIN _ttl

\* C10: a default wrapper is served from the cache only by an entry that
\* is written and valid, never by the result of a producer in flight, so
\* concurrent calls that miss each invoke the producer; each of them,
\* returning, leaves its own result as the entry (the last write wins).
C10_NoCoalescing ==
    /\ (ev.op = "return" /\ ev.line = 84) =>
           /\ hist[ev.key].by \in {"add", "wrap", "wrapx"}
           /\ ev.val = hist[ev.key].v
           /\ now < hist[ev.key].t + hist[ev.key].d
    /\ (ev.op = "return" /\ ev.line = 91) =>
           /\ ev.key \in DOMAIN _cache /\ _cache[ev.key] = ev.val
           /\ hist[ev.key].v = ev.val

\* C10 happens: two calls missed together, both wrote, and the entry holds
\* the later result, which differs from the earlier one.
C10_Witness ==
    /\ ev.op = "return" /\ ev.line = 91
    /\ ev.over # <<>> /\ ev.over # <<ev.val>>
    /\ _cache[ev.key] = ev.val
    /\ \A p \in Procs : pc[p] = "idle"

\* C11: add with ttl <= 0 is accepted and leaves an entry that is already
\* expired: until the entry is written again every get of the key, from
\* the instant of the add on, returns None, and the key is in cls._cache.
C11_NonPositiveTTL ==
    /\ (ev.op = "add" /\ hist[ev.key].d <= 0) =>
           (ev.key \in DOMAIN _cache /\ _ttl[ev.key] <= now)
    /\ (ev.op = "get" /\ hist[ev.key].by = "add" /\ hist[ev.key].d <= 0) =>
           /\ ev.log = "miss" /\ ev.val = None
           /\ ev.key \in DOMAIN _cache

\* C11 happens: a get at the instant of an add with ttl = 0 misses an
\* entry whose value is in the dictionary.
C11_Witness ==
    /\ ev.op = "get" /\ ev.log = "miss"
    /\ hist[ev.key].by = "add" /\ hist[ev.key].d = 0
    /\ now = hist[ev.key].t
    /\ _cache[ev.key] = "x"

\* C12: get writes neither dictionary, whether the key is absent, valid,
\* expired or invalidated; an expired entry stays in place.
C12_GetReadOnly ==
    [][ev'.op = "get" => UNCHANGED <<_cache, _ttl>>]_vars

\* C12 happens: a get missed an entry that expired and the entry is still
\* in both dictionaries.
C12_Witness ==
    /\ ev.op = "get" /\ ev.log = "miss"
    /\ hist[ev.key].by = "add" /\ hist[ev.key].d > 0
    /\ ev.key \in DOMAIN _cache /\ ev.key \in DOMAIN _ttl
    /\ _ttl[ev.key] <= now

\* C13: the result of get tells a found entry from not-found for every
\* value add accepts: get returns the not-found result None only when the
\* key is absent or its entry is expired.
C13_FoundFaithful ==
    (ev.op = "get" /\ ev.val = None) => ~GetHit(ev.key, now)

\* C14: the wrapper stores its result as add would at the moment of the
\* write: when it returns after the producer, the expiry of the entry is
\* the time of the write plus ttl, and with ttl > 0 a get at that moment
\* finds the result.
C14_TTLFromWrite ==
    (ev.op = "return" /\ ev.line = 91) =>
        /\ _ttl[ev.key] = Expiry(now, hist[ev.key].d)
        /\ hist[ev.key].d > 0 => (GetHit(ev.key, now) /\ _cache[ev.key] = ev.val)

\* C15: a wrapper with invalidate=True called on a key that has an entry,
\* whatever ignore is, sets the expiry to the call time minus 60 before it
\* awaits the producer and always awaits it; when the producer returns
\* the wrapper returns its result and writes neither dictionary; get keeps
\* missing the key until another operation writes the entry.
C15_InvalidateBranch ==
    [][/\ \A p \in Tasks, k \in Shared, ttl \in WrapTTLs, ignore \in BOOLEAN :
             (k \in DOMAIN _cache /\ wrapper(p, k, ttl, ignore, TRUE)) =>
                 /\ _ttl'[k] = now - InvalidateOffset
                 /\ _cache' = _cache
                 /\ pc'[p] = "line79"
       /\ \A p \in Tasks, result \in Values :
             (pc[p] = "line79" /\ wrapperResume(p, result)) =>
                 /\ ev'.op = "return" /\ ev'.val = result
                 /\ UNCHANGED <<_cache, _ttl>>
       /\ (ev'.op = "get" /\ hist[ev'.key].by = "winvalidate") =>
             ev'.log = "miss"]_vars

\* C15 happens: the invalidate branch returned a result that is not the
\* stored value, and the entry is still there, expired.
C15_Witness ==
    /\ ev.op = "return" /\ ev.line = 79
    /\ hist[ev.key].by = "winvalidate"
    /\ ev.key \in DOMAIN _cache /\ _cache[ev.key] # ev.val
    /\ _ttl[ev.key] < 0

\* C16: a wrapper with ignore=True and invalidate=False awaits the producer
\* on every call, also when the key has a valid entry, and reads nothing
\* from the cache; when the producer returns, the wrapper returns its
\* result and leaves it as the entry, with a newly written expiry.
C16_IgnoreFlag ==
    [][/\ \A p \in Tasks, k \in Shared, ttl \in WrapTTLs :
             wrapper(p, k, ttl, TRUE, FALSE) =>
                 /\ pc'[p] = "line87"
                 /\ ev'.op = "call"
                 /\ UNCHANGED <<_cache, _ttl>>
       /\ \A p \in Tasks, result \in Values :
             (pc[p] = "line87" /\ ~loc[p].plain /\ wrapperResume(p, result)) =>
                 /\ ev'.op = "return" /\ ev'.val = result
                 /\ _cache'[loc[p].key] = result
                 /\ _ttl'[loc[p].key] = Expiry(loc[p].t, loc[p].ttl)]_vars

\* C16 happens: a call that ignores the cache awaits the producer while
\* the key holds a valid entry.
C16_Witness ==
    /\ ev.op = "call" /\ ev.line = 87
    /\ ~loc[ev.task].plain
    /\ GetHit(ev.key, now)

\* C17: a call of a wrapper takes one path. Either it returns the cached
\* value at once, never awaits the producer and writes neither dictionary,
\* or it awaits the producer once and ends when the producer returns or
\* fails; no call does both.
C17_OnePath ==
    [][/\ \A p \in Tasks, k \in Shared, ttl \in WrapTTLs, ignore \in BOOLEAN,
            invalidate_ \in BOOLEAN :
             wrapper(p, k, ttl, ignore, invalidate_) =>
                 /\ pc[p] = "idle" /\ ev'.task = p
                 /\ (ev'.op = "return" /\ ev'.line = 84) \/ ev'.op = "call"
                 /\ (ev'.op = "return") <=> (pc'[p] = "idle")
                 /\ (ev'.op = "call") <=> (pc'[p] \in {"line79", "line87"})
                 /\ ev'.op = "return" =>
                        (ev'.val = _cache[k] /\ UNCHANGED <<_cache, _ttl>>)
       /\ \A p \in Tasks :
             (pc[p] \in {"line79", "line87"} /\ pc'[p] # pc[p]) =>
                 /\ pc'[p] = "idle" /\ ev'.task = p
                 /\ ev'.op \in {"return", "raise"}
                 /\ ev'.line # 84]_vars

\* C17 happens: a call returned the value an add had stored, without
\* awaiting the producer.
C17_Witness ==
    /\ ev.op = "return" /\ ev.line = 84
    /\ hist[ev.key].by = "add"
    /\ _cache[ev.key] = ev.val
    /\ pc[ev.task] = "idle"

\* C18: add overwrites whatever the key held: from add(k, v, d) at time t
\* until the next write of the key, its entry is exactly v with expiry
\* t + d, and with d > 0 get returns v at every time before t + d.
C18_AddOverwrites ==
    /\ \A k \in Keys :
           hist[k].by = "add" =>
               /\ k \in DOMAIN _cache /\ k \in DOMAIN _ttl
               /\ _cache[k] = hist[k].v
               /\ _ttl[k] = hist[k].t + hist[k].d
    /\ (/\ ev.op = "get" /\ hist[ev.key].by = "add"
        /\ hist[ev.key].d > 0 /\ now < hist[ev.key].t + hist[ev.key].d) =>
           ev.val = hist[ev.key].v

\* C18 happens: an add with ttl > 0 has replaced a valid entry that held
\* another value.
C18_Witness ==
    /\ ev.op = "add" /\ hist[ev.key].d > 0
    /\ ev.over # <<>> /\ ev.over # <<_cache[ev.key]>>
    /\ _ttl[ev.key] = now + hist[ev.key].d

\* C19: when tasks interleave only at the await of the producer, the two
\* dictionaries have the same keys in every reachable state, and no get,
\* invalidate or wrapper call fails on a missing expiry, also when clear
\* runs while a producer is in flight.
C19_SameKeys ==
    /\ DOMAIN _cache = DOMAIN _ttl
    /\ ev.val # "KeyError"
    /\ \A k \in Keys : ~TtlMissing(k)

\* C19 happens: clear has run while a wrapper that missed awaits its
\* producer.
C19_Witness ==
    /\ ev.op = "clear"
    /\ \E p \in Tasks : pc[p] = "line87" /\ loc[p].key \notin DOMAIN _cache

\* C20: an invalidation is not undone by a call that was already in
\* flight. When the last write of a key is an invalidation (its instant is
\* the expiry plus 60) and a wrapper that missed before that instant
\* returns from its producer, the key is still not valid after the return.
C20_InvalidationKept ==
    [][\A p \in Tasks :
          (/\ pc[p] = "line87"
           /\ hist[loc[p].key].by \in {"invalidate", "winvalidate"}
           /\ _ttl[loc[p].key] + InvalidateOffset > loc[p].t
           /\ pc'[p] = "idle" /\ ev'.op = "return") =>
              ~(/\ loc[p].key \in DOMAIN _cache'
                /\ _ttl'[loc[p].key] > now')]_vars

====
